---- MODULE Spec2Model ----
(***************************************************************************)
(* Definition collection and module-graph resolution of the analyzer:      *)
(* Resolver::collect_defs_crate (src/src/resolver.rs) driven over a        *)
(* database that implements AnalyzerDb (src/src/db.rs), here the MockDb of *)
(* src/src/tests/test_resolver.rs.                                         *)
(*                                                                         *)
(* One behaviour is one resolution run.  The database (syntax trees, path  *)
(* table) and the entry file are fixed by Init; every other variable is    *)
(* state of the run.  The recursion of discover_deps_in_tree is modelled   *)
(* by its call stack: `stack` holds the sub-specifications that are still  *)
(* to be walked, in the order the code walks them.                         *)
(***************************************************************************)
EXTENDS Integers, Sequences, FiniteSets, Bags, TLC

(***************************************************************************)
(* Bounds of the model.                                                    *)
(***************************************************************************)
NumFiles == 3        \* files added to the database (FileId 0 .. NumFiles-1)
MaxEdges == 3        \* import declarations in a database of the graph family
MaxWeight == 3       \* items plus import-tree nodes of an entry module
MaxCalls == 3        \* calls of new_def_id followed from one allocator state
Window == 40         \* allocator states below the largest u32 that are started from
NumHirIds == 3       \* expression ids given to a TypeMap (HirId 0 .. NumHirIds-1)
MaxSets == 3         \* calls of set_expr_type followed on one TypeMap

\* A u32 is written <<hi, lo>>, two 16-bit halves, most significant first.
Half == 65536

Files == 0 .. (NumFiles - 1)
\* A path is the name of a module.  Path i names the module of file i; path
\* NumFiles names a module that was never added to the database.
Paths == 0 .. NumFiles
Texts == {"main", "Point"}
ItemKind == {"Function", "Struct"}
HirIds == 0 .. (NumHirIds - 1)
Types == {"I32", "Bool"}

(***************************************************************************)
(* Syntax trees (crate ast): UseTree and Item.                             *)
(***************************************************************************)
Simple(p) == [kind |-> "Simple", path |-> <<p>>, items |-> <<>>]
Group(ts) == [kind |-> "Group", path |-> <<>>, items |-> ts]
Wildcard == [kind |-> "Wildcard", path |-> <<>>, items |-> <<>>]
NoTree == [kind |-> "None", path |-> <<>>, items |-> <<>>]

Function(n) == [tag |-> "Function", name |-> n, tree |-> NoTree]
Struct(n) == [tag |-> "Struct", name |-> n, tree |-> NoTree]
Use(t) == [tag |-> "Use", name |-> "", tree |-> t]

IsDecl(item) == item.tag \in ItemKind

(***************************************************************************)
(* The databases of the runs.                                               *)
(***************************************************************************)
\* The declarations of the files of the test (main.ny: fun main; utils.ny:
\* struct Point, fun helper), continued with a file that declares nothing.
FixtureDecls(f) ==
    CASE f % 3 = 0 -> <<Function("main")>>
      [] f % 3 = 1 -> <<Struct("Point"), Function("helper")>>
      [] OTHER -> <<>>

RECURSIVE TreesOfSize(_)
RECURSIVE ForestsOfSize(_)
\* The import trees with exactly n nodes.
TreesOfSize(n) ==
    (IF n = 1 THEN {Simple(p) : p \in Paths} \cup {Wildcard} ELSE {})
        \cup {Group(f) : f \in ForestsOfSize(n - 1)}
\* The sequences of import trees with exactly k nodes in all.
ForestsOfSize(k) ==
    IF k = 0 THEN {<<>>}
    ELSE UNION {{<<t>> \o f : t \in TreesOfSize(j), f \in ForestsOfSize(k - j)} :
                    j \in 1 .. k}

ItemsOfWeight(w) ==
    (IF w = 1 THEN {Function(n) : n \in Texts} \cup {Struct(n) : n \in Texts} ELSE {})
        \cup {Use(t) : t \in TreesOfSize(w)}

RECURSIVE ModulesOfWeight(_)
ModulesOfWeight(w) ==
    IF w = 0 THEN {<<>>}
    ELSE UNION {{<<i>> \o m : i \in ItemsOfWeight(j), m \in ModulesOfWeight(w - j)} :
                    j \in 1 .. w}

RECURSIVE EdgeSetsUpTo(_)
\* The sets of at most k import edges <<importing file, path>>.
EdgeSetsUpTo(k) ==
    IF k = 0 THEN {{}}
    ELSE LET S == EdgeSetsUpTo(k - 1)
         IN  S \cup {E \cup {e} : E \in S, e \in Files \X Paths}

RECURSIVE Ascending(_)
Ascending(S) ==
    IF S = {} THEN <<>>
    ELSE LET m == CHOOSE x \in S : \A y \in S : x <= y
         IN  <<m>> \o Ascending(S \ {m})

\* Graph family: file f imports the paths E gives it, one declaration per
\* path, then declares its fixture.
GraphModule(E, f) ==
    LET ps == Ascending({p \in Paths : <<f, p>> \in E})
    IN  [i \in 1 .. Len(ps) |-> Use(Simple(ps[i]))] \o FixtureDecls(f)

GraphDbs == {[f \in Files |-> GraphModule(E, f)] : E \in EdgeSetsUpTo(MaxEdges)}

\* Module family: file 0 is any module of weight at most MaxWeight, the
\* other files declare their fixture and import nothing.
ModuleDbs ==
    {[f \in Files |-> IF f = 0 THEN m ELSE FixtureDecls(f)] :
        m \in UNION {ModulesOfWeight(w) : w \in 0 .. MaxWeight}}

(***************************************************************************)
(* State.                                                                  *)
(***************************************************************************)
VARIABLES
    entry_file,     \* argument of collect_defs_crate
    ast,            \* db.ast: FileId -> Module (the sequence of its items)
    interner,       \* TestInterner.vec; Symbol i is the text at index i
    counter,        \* id_allocator.counter
    def_map,        \* def_map.items: DefId -> ItemDef
    worklist,       \* local VecDeque of collect_defs_crate
    visited,        \* local HashSet of collect_defs_crate
    pc,             \* position of the run
    file_id,        \* the file popped by the current iteration
    idx,            \* index of the next item of the current for loop
    stack,          \* sub-specifications discover_deps_in_tree has yet to walk
    ast_calls,      \* history: arguments of the db.ast calls, in order
    resolve_calls,  \* history: <<anchor, path>> of the resolve_module calls
    pushed,         \* history: arguments of worklist.push_back, in order
    popped,         \* history: results of worklist.pop_front, in order
    returned,       \* history: values returned by new_def_id, in order
    earlier,        \* the run before this one, if any: <<>> or <<its outcome>>
    expr_types,     \* TypeMap.expr_types: HirId -> Type
    set_calls,      \* history: <<expr_id, ty>> of the set_expr_type calls
    got             \* the last get_expr_type: <<>> or <<expr_id, result>>

vars == <<entry_file, ast, interner, counter, def_map, worklist, visited, pc,
          file_id, idx, stack, ast_calls, resolve_calls, pushed, popped, returned,
          earlier, expr_types, set_calls, got>>

type_vars == <<expr_types, set_calls, got>>
\* What no step of a resolution run changes: the database, the entry file,
\* the outcome of the earlier run and the TypeMap.
db_vars == <<entry_file, ast, earlier, type_vars>>
walk_frame == <<visited, counter, def_map, interner, ast_calls, popped, returned>>

(***************************************************************************)
(* The query boundary (AnalyzerDb as MockDb implements it).                *)
(***************************************************************************)
\* MockDb::resolve_module: the anchor is ignored, the path is looked up in
\* the table add_file built; Some(f) is <<f>>, None is <<>>.
resolve_module(anchor_file, path) ==
    IF path \in Files THEN <<path>> ELSE <<>>

\* TestInterner::intern on the vector `vec`: the Symbol and the new vector.
intern_string(vec, s) ==
    IF \E i \in 1 .. Len(vec) : vec[i] = s
    THEN [symbol |-> (CHOOSE i \in 1 .. Len(vec) : vec[i] = s) - 1, vec |-> vec]
    ELSE [symbol |-> Len(vec), vec |-> Append(vec, s)]

(***************************************************************************)
(* DefIdAllocator.                                                         *)
(***************************************************************************)
U32(n) == <<n \div Half, n % Half>>
U32Max == <<Half - 1, Half - 1>>
U32Less(a, b) == a[1] < b[1] \/ (a[1] = b[1] /\ a[2] < b[2])

\* u32 `+= 1` where overflow checks are off: the sum modulo 2^32.
WrappingInc(c) ==
    IF c[2] < Half - 1 THEN <<c[1], c[2] + 1>>
    ELSE IF c[1] < Half - 1 THEN <<c[1] + 1, 0>>
    ELSE <<0, 0>>

\* new_def_id on counter c: the DefId returned and the counter left.
\* new_def_id without the increment.
new_def_id_no_increment(c) == [id |-> c, counter |-> c]

new_def_id(c) == [id |-> c, counter |-> WrappingInc(c)]

ItemDef(id, sym, kind, item) ==
    [def_id |-> id, name |-> sym, kind |-> kind, ast_node |-> item]

\* HashMap::insert
insert(map, k, v) == [x \in (DOMAIN map) \cup {k} |-> IF x = k THEN v ELSE map[x]]

(***************************************************************************)
(* Resolver::new and the first statements of collect_defs_crate.           *)
(***************************************************************************)
RunInit ==
    /\ interner = <<>>
    /\ counter = U32(0)
    /\ def_map = <<>>
    /\ worklist = <<entry_file>>
    /\ visited = {}
    /\ pc = "loop"
    /\ file_id = entry_file
    /\ idx = 1
    /\ stack = <<>>
    /\ ast_calls = <<>>
    /\ resolve_calls = <<>>
    /\ pushed = <<entry_file>>
    /\ popped = <<>>
    /\ returned = <<>>

TypeMapInit ==
    /\ expr_types = <<>>
    /\ set_calls = <<>>
    /\ got = <<>>

Init ==
    /\ \/ ast \in GraphDbs /\ entry_file \in Files
       \/ ast \in ModuleDbs /\ entry_file = 0
    /\ RunInit
    /\ earlier = <<>>
    /\ TypeMapInit

(***************************************************************************)
(* collect_defs_crate: the worklist loop.                                  *)
(***************************************************************************)
\* PopVisited with front() for pop_front(): the visited file stays queued.
PopVisitedPeek ==
    /\ pc = "loop"
    /\ worklist # <<>>
    /\ Head(worklist) \in visited
    /\ file_id' = Head(worklist)
    /\ UNCHANGED <<db_vars, interner, counter, def_map, worklist, visited, pc, idx,
                   stack, ast_calls, resolve_calls, pushed, popped, returned>>

\* PopVisited without the `continue`: the visited file is fetched and
\* scanned again.
PopVisitedRescan ==
    /\ pc = "loop"
    /\ worklist # <<>>
    /\ Head(worklist) \in visited
    /\ worklist' = Tail(worklist)
    /\ file_id' = Head(worklist)
    /\ popped' = Append(popped, Head(worklist))
    /\ ast_calls' = Append(ast_calls, Head(worklist))
    /\ pc' = "collect"
    /\ idx' = 1
    /\ UNCHANGED <<db_vars, interner, counter, def_map, visited, stack,
                   resolve_calls, pushed, returned>>

\* PopVisited that takes a DefId from the allocator before it continues.
PopVisitedAllocates ==
    /\ pc = "loop"
    /\ worklist # <<>>
    /\ Head(worklist) \in visited
    /\ worklist' = Tail(worklist)
    /\ file_id' = Head(worklist)
    /\ popped' = Append(popped, Head(worklist))
    /\ counter' = new_def_id(counter).counter
    /\ UNCHANGED <<db_vars, interner, def_map, visited, pc, idx, stack,
                   ast_calls, resolve_calls, pushed, returned>>

\* pop_front gives a file that is already visited: continue.
PopVisited ==
    /\ pc = "loop"
    /\ worklist # <<>>
    /\ Head(worklist) \in visited
    /\ worklist' = Tail(worklist)
    /\ file_id' = Head(worklist)
    /\ popped' = Append(popped, Head(worklist))
    /\ UNCHANGED <<db_vars, interner, counter, def_map, visited, pc, idx, stack,
                   ast_calls, resolve_calls, pushed, returned>>

\* PopFresh with visited.contains for visited.insert: the file is not marked.
PopFreshNoMark ==
    /\ pc = "loop"
    /\ worklist # <<>>
    /\ Head(worklist) \notin visited
    /\ worklist' = Tail(worklist)
    /\ file_id' = Head(worklist)
    /\ popped' = Append(popped, Head(worklist))
    /\ ast_calls' = Append(ast_calls, Head(worklist))
    /\ pc' = "collect"
    /\ idx' = 1
    /\ UNCHANGED <<db_vars, interner, counter, def_map, visited, stack,
                   resolve_calls, pushed, returned>>

\* pop_front gives a new file: mark it, fetch its tree, enter
\* collect_defs_in_module.
PopFresh ==
    /\ pc = "loop"
    /\ worklist # <<>>
    /\ Head(worklist) \notin visited
    /\ worklist' = Tail(worklist)
    /\ file_id' = Head(worklist)
    /\ popped' = Append(popped, Head(worklist))
    /\ visited' = visited \cup {Head(worklist)}
    /\ ast_calls' = Append(ast_calls, Head(worklist))
    /\ pc' = "collect"
    /\ idx' = 1
    /\ UNCHANGED <<db_vars, interner, counter, def_map, stack, resolve_calls,
                   pushed, returned>>

\* pop_front gives None: the loop ends and def_map is returned.
Return ==
    /\ pc = "loop"
    /\ worklist = <<>>
    /\ pc' = "done"
    /\ UNCHANGED <<db_vars, interner, counter, def_map, worklist, visited,
                   file_id, idx, stack, ast_calls, resolve_calls, pushed, popped,
                   returned>>

(***************************************************************************)
(* collect_defs_in_module: one iteration per item.                         *)
(***************************************************************************)
\* CollectFunction that makes the Symbol from the DefId and does not intern.
CollectFunctionSymbolFromId ==
    /\ pc = "collect"
    /\ idx <= Len(ast[file_id])
    /\ ast[file_id][idx].tag = "Function"
    /\ LET item == ast[file_id][idx]
           a == new_def_id(counter)
       IN  /\ counter' = a.counter
           /\ returned' = Append(returned, a.id)
           /\ def_map' = insert(def_map, a.id, ItemDef(a.id, a.id[2], "Function", item))
    /\ idx' = idx + 1
    /\ UNCHANGED <<db_vars, interner, worklist, visited, pc, file_id, stack, ast_calls,
                   resolve_calls, pushed, popped>>

\* AstItem::Function: allocate, intern the name, insert the ItemDef.
CollectFunction ==
    /\ pc = "collect"
    /\ idx <= Len(ast[file_id])
    /\ ast[file_id][idx].tag = "Function"
    /\ LET item == ast[file_id][idx]
           a == new_def_id(counter)
           s == intern_string(interner, item.name)
       IN  /\ counter' = a.counter
           /\ returned' = Append(returned, a.id)
           /\ interner' = s.vec
           /\ def_map' = insert(def_map, a.id, ItemDef(a.id, s.symbol, "Function", item))
    /\ idx' = idx + 1
    /\ UNCHANGED <<db_vars, worklist, visited, pc, file_id, stack, ast_calls,
                   resolve_calls, pushed, popped>>

\* CollectStruct with the kind of the function arm.
CollectStructAsFunction ==
    /\ pc = "collect"
    /\ idx <= Len(ast[file_id])
    /\ ast[file_id][idx].tag = "Struct"
    /\ LET item == ast[file_id][idx]
           a == new_def_id(counter)
           s == intern_string(interner, item.name)
       IN  /\ counter' = a.counter
           /\ returned' = Append(returned, a.id)
           /\ interner' = s.vec
           /\ def_map' = insert(def_map, a.id, ItemDef(a.id, s.symbol, "Function", item))
    /\ idx' = idx + 1
    /\ UNCHANGED <<db_vars, worklist, visited, pc, file_id, stack, ast_calls,
                   resolve_calls, pushed, popped>>

\* AstItem::Struct: the same with ItemKind::Struct.
CollectStruct ==
    /\ pc = "collect"
    /\ idx <= Len(ast[file_id])
    /\ ast[file_id][idx].tag = "Struct"
    /\ LET item == ast[file_id][idx]
           a == new_def_id(counter)
           s == intern_string(interner, item.name)
       IN  /\ counter' = a.counter
           /\ returned' = Append(returned, a.id)
           /\ interner' = s.vec
           /\ def_map' = insert(def_map, a.id, ItemDef(a.id, s.symbol, "Struct", item))
    /\ idx' = idx + 1
    /\ UNCHANGED <<db_vars, worklist, visited, pc, file_id, stack, ast_calls,
                   resolve_calls, pushed, popped>>

\* CollectUse that resolves the path of a simple import and enqueues the
\* file while the definitions are extracted.
CollectUseResolves ==
    /\ pc = "collect"
    /\ idx <= Len(ast[file_id])
    /\ ast[file_id][idx].tag = "Use"
    /\ idx' = idx + 1
    /\ LET t == ast[file_id][idx].tree
           r == IF t.kind = "Simple" THEN resolve_module(file_id, t.path[1]) ELSE <<>>
       IN  /\ resolve_calls' = IF t.kind = "Simple"
                               THEN Append(resolve_calls, <<file_id, t.path[1]>>)
                               ELSE resolve_calls
           /\ worklist' = worklist \o r
           /\ pushed' = pushed \o r
    /\ UNCHANGED <<db_vars, interner, counter, def_map, visited, pc,
                   file_id, stack, ast_calls, popped, returned>>

\* AstItem::Use: nothing.
CollectUse ==
    /\ pc = "collect"
    /\ idx <= Len(ast[file_id])
    /\ ast[file_id][idx].tag = "Use"
    /\ idx' = idx + 1
    /\ UNCHANGED <<db_vars, interner, counter, def_map, worklist, visited, pc,
                   file_id, stack, ast_calls, resolve_calls, pushed, popped,
                   returned>>

\* The items are exhausted: collect_defs_in_module returns and the loop over
\* the use statements starts.
CollectEnd ==
    /\ pc = "collect"
    /\ idx > Len(ast[file_id])
    /\ pc' = "discover"
    /\ idx' = 1
    /\ UNCHANGED <<db_vars, interner, counter, def_map, worklist, visited,
                   file_id, stack, ast_calls, resolve_calls, pushed, popped,
                   returned>>

(***************************************************************************)
(* The loop over the use statements and discover_deps_in_tree.             *)
(***************************************************************************)
\* A use statement: call discover_deps_in_tree(file_id, tree, worklist).
DiscoverUse ==
    /\ pc = "discover"
    /\ stack = <<>>
    /\ idx <= Len(ast[file_id])
    /\ ast[file_id][idx].tag = "Use"
    /\ stack' = <<ast[file_id][idx].tree>>
    /\ idx' = idx + 1
    /\ UNCHANGED <<db_vars, worklist, pc, file_id, resolve_calls, pushed, walk_frame>>

\* An item that is no use statement: the `if let` does not match.
DiscoverSkip ==
    /\ pc = "discover"
    /\ stack = <<>>
    /\ idx <= Len(ast[file_id])
    /\ ast[file_id][idx].tag # "Use"
    /\ idx' = idx + 1
    /\ UNCHANGED <<db_vars, worklist, pc, file_id, stack, resolve_calls, pushed,
                   walk_frame>>

\* WalkSimpleSome that marks the file visited when it enqueues it.
WalkSimpleSomeMarks ==
    /\ pc = "discover"
    /\ stack # <<>>
    /\ Head(stack).kind = "Simple"
    /\ LET path == Head(stack).path[1]
           r == resolve_module(file_id, path)
       IN  /\ r # <<>>
           /\ resolve_calls' = Append(resolve_calls, <<file_id, path>>)
           /\ worklist' = Append(worklist, r[1])
           /\ pushed' = Append(pushed, r[1])
           /\ visited' = visited \cup {r[1]}
    /\ stack' = Tail(stack)
    /\ UNCHANGED <<db_vars, pc, file_id, idx, counter, def_map, interner, ast_calls,
                   popped, returned>>

\* WalkSimpleSome that resolves relative to the file discovered last.
WalkSimpleSomeReanchored ==
    /\ pc = "discover"
    /\ stack # <<>>
    /\ Head(stack).kind = "Simple"
    /\ LET path == Head(stack).path[1]
           anchor == pushed[Len(pushed)]
           r == resolve_module(anchor, path)
       IN  /\ r # <<>>
           /\ resolve_calls' = Append(resolve_calls, <<anchor, path>>)
           /\ worklist' = Append(worklist, r[1])
           /\ pushed' = Append(pushed, r[1])
    /\ stack' = Tail(stack)
    /\ UNCHANGED <<db_vars, pc, file_id, idx, walk_frame>>

\* WalkSimpleSome with push_front for push_back.
WalkSimpleSomePushFront ==
    /\ pc = "discover"
    /\ stack # <<>>
    /\ Head(stack).kind = "Simple"
    /\ LET path == Head(stack).path[1]
           r == resolve_module(file_id, path)
       IN  /\ r # <<>>
           /\ resolve_calls' = Append(resolve_calls, <<file_id, path>>)
           /\ worklist' = <<r[1]>> \o worklist
           /\ pushed' = Append(pushed, r[1])
    /\ stack' = Tail(stack)
    /\ UNCHANGED <<db_vars, pc, file_id, idx, walk_frame>>

\* WalkSimpleSome that enqueues the file only if it is not visited yet.
WalkSimpleSomeSkipsVisited ==
    /\ pc = "discover"
    /\ stack # <<>>
    /\ Head(stack).kind = "Simple"
    /\ LET path == Head(stack).path[1]
           r == resolve_module(file_id, path)
       IN  /\ r # <<>>
           /\ resolve_calls' = Append(resolve_calls, <<file_id, path>>)
           /\ worklist' = IF r[1] \in visited THEN worklist ELSE Append(worklist, r[1])
           /\ pushed' = IF r[1] \in visited THEN pushed ELSE Append(pushed, r[1])
    /\ stack' = Tail(stack)
    /\ UNCHANGED <<db_vars, pc, file_id, idx, walk_frame>>

\* UseTree::Simple whose path resolves: push the file.
WalkSimpleSome ==
    /\ pc = "discover"
    /\ stack # <<>>
    /\ Head(stack).kind = "Simple"
    /\ LET path == Head(stack).path[1]
           r == resolve_module(file_id, path)
       IN  /\ r # <<>>
           /\ resolve_calls' = Append(resolve_calls, <<file_id, path>>)
           /\ worklist' = Append(worklist, r[1])
           /\ pushed' = Append(pushed, r[1])
    /\ stack' = Tail(stack)
    /\ UNCHANGED <<db_vars, pc, file_id, idx, walk_frame>>

\* WalkSimpleNone that gives up the walk of the declaration.
WalkSimpleNoneAbort ==
    /\ pc = "discover"
    /\ stack # <<>>
    /\ Head(stack).kind = "Simple"
    /\ LET path == Head(stack).path[1]
           r == resolve_module(file_id, path)
       IN  /\ r = <<>>
           /\ resolve_calls' = Append(resolve_calls, <<file_id, path>>)
    /\ stack' = <<>>
    /\ UNCHANGED <<db_vars, worklist, pc, file_id, idx, pushed, walk_frame>>

\* UseTree::Simple whose path does not resolve: nothing.
WalkSimpleNone ==
    /\ pc = "discover"
    /\ stack # <<>>
    /\ Head(stack).kind = "Simple"
    /\ LET path == Head(stack).path[1]
           r == resolve_module(file_id, path)
       IN  /\ r = <<>>
           /\ resolve_calls' = Append(resolve_calls, <<file_id, path>>)
    /\ stack' = Tail(stack)
    /\ UNCHANGED <<db_vars, worklist, pc, file_id, idx, pushed, walk_frame>>

\* WalkGroup that walks the first member only.
WalkGroupFirstOnly ==
    /\ pc = "discover"
    /\ stack # <<>>
    /\ Head(stack).kind = "Group"
    /\ stack' = (IF Head(stack).items = <<>> THEN <<>> ELSE <<Head(Head(stack).items)>>)
                    \o Tail(stack)
    /\ UNCHANGED <<db_vars, worklist, pc, file_id, idx, resolve_calls, pushed,
                   walk_frame>>

\* WalkGroup without the recursion: members that are groups are left out.
WalkGroupShallow ==
    /\ pc = "discover"
    /\ stack # <<>>
    /\ Head(stack).kind = "Group"
    /\ stack' = SelectSeq(Head(stack).items, LAMBDA t : t.kind # "Group") \o Tail(stack)
    /\ UNCHANGED <<db_vars, worklist, pc, file_id, idx, resolve_calls, pushed,
                   walk_frame>>

\* WalkGroup that walks the last member only.
WalkGroupLastOnly ==
    /\ pc = "discover"
    /\ stack # <<>>
    /\ Head(stack).kind = "Group"
    /\ stack' = (IF Head(stack).items = <<>> THEN <<>>
                 ELSE <<Head(stack).items[Len(Head(stack).items)]>>) \o Tail(stack)
    /\ UNCHANGED <<db_vars, worklist, pc, file_id, idx, resolve_calls, pushed,
                   walk_frame>>

\* UseTree::Group: walk every member, in order, before what was pending.
WalkGroup ==
    /\ pc = "discover"
    /\ stack # <<>>
    /\ Head(stack).kind = "Group"
    /\ stack' = Head(stack).items \o Tail(stack)
    /\ UNCHANGED <<db_vars, worklist, pc, file_id, idx, resolve_calls, pushed,
                   walk_frame>>

\* WalkWildcard with todo!() for the empty arm.
WalkWildcardTodo ==
    /\ pc = "discover"
    /\ stack # <<>>
    /\ Head(stack).kind = "Wildcard"
    /\ pc' = "panicked"
    /\ UNCHANGED <<db_vars, worklist, stack, file_id, idx, resolve_calls, pushed,
                   walk_frame>>

\* UseTree::Wildcard: ignored.
WalkWildcard ==
    /\ pc = "discover"
    /\ stack # <<>>
    /\ Head(stack).kind = "Wildcard"
    /\ stack' = Tail(stack)
    /\ UNCHANGED <<db_vars, worklist, pc, file_id, idx, resolve_calls, pushed,
                   walk_frame>>

\* The items are exhausted: next iteration of the worklist loop.
DiscoverEnd ==
    /\ pc = "discover"
    /\ stack = <<>>
    /\ idx > Len(ast[file_id])
    /\ pc' = "loop"
    /\ UNCHANGED <<db_vars, interner, counter, def_map, worklist, visited,
                   file_id, idx, stack, ast_calls, resolve_calls, pushed, popped,
                   returned>>

Next ==
    \/ PopVisited
    \/ PopFresh
    \/ Return
    \/ CollectFunction
    \/ CollectStruct
    \/ CollectUse
    \/ CollectEnd
    \/ DiscoverUse
    \/ DiscoverSkip
    \/ WalkSimpleSome
    \/ WalkSimpleNone
    \/ WalkGroup
    \/ WalkWildcard
    \/ DiscoverEnd

Spec == Init /\ [][Next]_vars

\* The run is one sequential thread: a step that can be taken is taken.
FairSpec == Spec /\ WF_vars(Next)

(***************************************************************************)
(* DefIdAllocator on its own: successive calls of new_def_id, followed     *)
(* from a new allocator and from the allocator states just below the       *)
(* largest u32 (the state after that many calls).  `returned` is the       *)
(* history of the calls followed.                                          *)
(***************************************************************************)
AllocStarts == {U32(0)} \cup {<<Half - 1, Half - 1 - k>> : k \in 0 .. Window}

AllocInit ==
    /\ entry_file = 0
    /\ ast = [f \in Files |-> <<>>]
    /\ interner = <<>>
    /\ counter \in AllocStarts
    /\ def_map = <<>>
    /\ worklist = <<>>
    /\ visited = {}
    /\ pc = IF counter = U32(0) THEN "allocator_new" ELSE "allocator_used"
    /\ file_id = 0
    /\ idx = 1
    /\ stack = <<>>
    /\ ast_calls = <<>>
    /\ resolve_calls = <<>>
    /\ pushed = <<>>
    /\ popped = <<>>
    /\ returned = <<>>
    /\ earlier = <<>>
    /\ TypeMapInit

alloc_frame == <<db_vars, interner, def_map, worklist, visited, file_id, idx, stack,
                 ast_calls, resolve_calls, pushed, popped>>

\* new_def_id returns (the increment did not overflow, or overflow checks
\* are off and it wrapped).
NewDefId ==
    /\ pc \in {"allocator_new", "allocator_used"}
    /\ Len(returned) < MaxCalls
    /\ LET a == new_def_id(counter)
       IN  /\ counter' = a.counter
           /\ returned' = Append(returned, a.id)
    /\ UNCHANGED <<pc, alloc_frame>>

\* `self.counter += 1` overflows where overflow checks are on: the call
\* panics and returns nothing.
NewDefIdOverflowPanic ==
    /\ pc \in {"allocator_new", "allocator_used"}
    /\ Len(returned) < MaxCalls
    /\ counter = U32Max
    /\ pc' = "panicked"
    /\ UNCHANGED <<counter, returned, alloc_frame>>

AllocNext ==
    \/ NewDefId
    \/ NewDefIdOverflowPanic

AllocSpec == AllocInit /\ [][AllocNext]_vars

(***************************************************************************)
(* Two runs.  When a run has returned, a second Resolver is made and run,  *)
(* as a test with two calls does: over the same database (Rerun), or over  *)
(* a new database whose files have their imports written differently       *)
(* (RunVariant).  `earlier` keeps what the first run returned and the set  *)
(* of files it visited; the histories start again with the second run.     *)
(***************************************************************************)
Reverse(s) == [i \in 1 .. Len(s) |-> s[Len(s) + 1 - i]]

\* The module with its import declarations in reverse order, every other
\* item where it was.
ReverseUses(m) ==
    LET uses == SelectSeq(m, LAMBDA item : item.tag = "Use")
        rank(i) == Cardinality({j \in 1 .. i : m[j].tag = "Use"})
    IN  [i \in 1 .. Len(m) |->
            IF m[i].tag = "Use" THEN uses[Len(uses) + 1 - rank(i)] ELSE m[i]]

RECURSIVE ReverseMembers(_)
\* The import tree with the members of every group in reverse order.
ReverseMembers(t) ==
    IF t.kind = "Group"
    THEN Group(Reverse([i \in 1 .. Len(t.items) |-> ReverseMembers(t.items[i])]))
    ELSE t

ReverseGroups(m) ==
    [i \in 1 .. Len(m) |->
        IF m[i].tag = "Use" THEN Use(ReverseMembers(m[i].tree)) ELSE m[i]]

\* The module with its first import declaration written once more.
DuplicateUse(m) ==
    LET uses == SelectSeq(m, LAMBDA item : item.tag = "Use")
    IN  IF uses = <<>> THEN m ELSE Append(m, uses[1])

Variants == {"permuted", "regrouped", "duplicated"}

VariantOf(v, m) ==
    CASE v = "permuted" -> ReverseUses(m)
      [] v = "regrouped" -> ReverseGroups(m)
      [] OTHER -> DuplicateUse(m)

\* Resolver::new and the start of collect_defs_crate, for the second run.
SecondRunStarts ==
    /\ pc = "done"
    /\ earlier = <<>>
    /\ earlier' = <<[visited |-> visited, def_map |-> def_map]>>
    /\ def_map' = <<>>
    /\ worklist' = <<entry_file>>
    /\ visited' = {}
    /\ pc' = "loop"
    /\ file_id' = entry_file
    /\ idx' = 1
    /\ stack' = <<>>
    /\ ast_calls' = <<>>
    /\ resolve_calls' = <<>>
    /\ pushed' = <<entry_file>>
    /\ popped' = <<>>
    /\ returned' = <<>>

\* Rerun with the allocator of the first run handed to the second.
RerunSharedAllocator ==
    /\ SecondRunStarts
    /\ UNCHANGED <<entry_file, ast, interner, counter, type_vars>>

\* A second Resolver over the same database: the interner of the database
\* keeps the texts it has seen.
Rerun ==
    /\ SecondRunStarts
    /\ counter' = U32(0)
    /\ UNCHANGED <<entry_file, ast, interner, type_vars>>

RerunNext ==
    \/ Next
    \/ Rerun

RerunSpec == Init /\ [][RerunNext]_vars

\* A second Resolver over a new database (new interner) with the same
\* files, their imports reordered, regrouped or repeated.
RunVariant ==
    /\ SecondRunStarts
    /\ counter' = U32(0)
    /\ interner' = <<>>
    /\ \E v \in Variants :
           LET db == [f \in Files |-> VariantOf(v, ast[f])]
           IN  db # ast /\ ast' = db
    /\ UNCHANGED <<entry_file, type_vars>>

VariantNext ==
    \/ Next
    \/ RunVariant

VariantSpec == Init /\ [][VariantNext]_vars

(***************************************************************************)
(* TypeMap on its own: calls of set_expr_type and get_expr_type on one     *)
(* map, from TypeMap::new.  `set_calls` is the history of the calls of     *)
(* set_expr_type and `got` the last lookup with its answer (an Option, as  *)
(* a sequence of length 0 or 1).                                           *)
(***************************************************************************)
\* set_expr_type with entry(expr_id).or_insert(ty) for insert.
set_expr_type_keep_first(map, expr_id, ty) ==
    IF expr_id \in DOMAIN map THEN map ELSE insert(map, expr_id, ty)

set_expr_type(map, expr_id, ty) == insert(map, expr_id, ty)

get_expr_type(map, expr_id) == IF expr_id \in DOMAIN map THEN <<map[expr_id]>> ELSE <<>>

TypeMapSpecInit ==
    /\ entry_file = 0
    /\ ast = [f \in Files |-> <<>>]
    /\ interner = <<>>
    /\ counter = U32(0)
    /\ def_map = <<>>
    /\ worklist = <<>>
    /\ visited = {}
    /\ pc = "type_map"
    /\ file_id = 0
    /\ idx = 1
    /\ stack = <<>>
    /\ ast_calls = <<>>
    /\ resolve_calls = <<>>
    /\ pushed = <<>>
    /\ popped = <<>>
    /\ returned = <<>>
    /\ earlier = <<>>
    /\ TypeMapInit

type_frame == <<entry_file, ast, earlier, interner, counter, def_map, worklist, visited,
                pc, file_id, idx, stack, ast_calls, resolve_calls, pushed, popped,
                returned>>

SetExprType ==
    /\ pc = "type_map"
    /\ Len(set_calls) < MaxSets
    /\ \E expr_id \in HirIds, ty \in Types :
           /\ expr_types' = set_expr_type(expr_types, expr_id, ty)
           /\ set_calls' = Append(set_calls, <<expr_id, ty>>)
    /\ UNCHANGED <<got, type_frame>>

GetExprType ==
    /\ pc = "type_map"
    /\ \E expr_id \in HirIds : got' = <<expr_id, get_expr_type(expr_types, expr_id)>>
    /\ UNCHANGED <<expr_types, set_calls, type_frame>>

TypeMapNext ==
    \/ SetExprType
    \/ GetExprType

TypeMapSpec == TypeMapSpecInit /\ [][TypeMapNext]_vars

(***************************************************************************)
(* Vocabulary of the properties.                                           *)
(***************************************************************************)
Range(s) == {s[i] : i \in DOMAIN s}

Count(s, x) == Cardinality({i \in DOMAIN s : s[i] = x})

RECURSIVE FlatPaths(_)
RECURSIVE FlatPathsOfForest(_)
\* The Simple paths of an import tree, nested to any depth, left to right.
FlatPaths(t) ==
    CASE t.kind = "Simple" -> t.path
      [] t.kind = "Group" -> FlatPathsOfForest(t.items)
      [] OTHER -> <<>>
FlatPathsOfForest(ts) ==
    IF ts = <<>> THEN <<>> ELSE FlatPaths(Head(ts)) \o FlatPathsOfForest(Tail(ts))

RECURSIVE ModulePaths(_)
\* The Simple paths of the import declarations of a module, in source order.
ModulePaths(m) ==
    IF m = <<>> THEN <<>>
    ELSE (IF Head(m).tag = "Use" THEN FlatPaths(Head(m).tree) ELSE <<>>)
             \o ModulePaths(Tail(m))

\* The files that file f imports through paths that resolve.
Imports(f) ==
    {r[1] : r \in {resolve_module(f, p) : p \in Range(ModulePaths(ast[f]))} \ {<<>>}}

RECURSIVE ImportClosure(_)
ImportClosure(S) ==
    LET T == S \cup UNION {Imports(f) : f \in S}
    IN  IF T = S THEN S ELSE ImportClosure(T)

\* The files reachable from the entry file.
Reachable == ImportClosure({entry_file})

\* The occurrences <<file, index>> of function and struct declarations in
\* the files of F.
DeclsIn(F) ==
    UNION {{<<f, i>> : i \in {j \in DOMAIN ast[f] : IsDecl(ast[f][j])}} : f \in F}

Done == pc = "done"

\* Some file is imported by a file that it imports (a cycle of length two).
HasTwoCycle == \E f, g \in Files : f # g /\ g \in Imports(f) /\ f \in Imports(g)

(***************************************************************************)
(* C1.  For every import graph (self-imports, cycles, diamonds) and every  *)
(* entry file, collect_defs_crate terminates: the worklist becomes empty   *)
(* and the registry is returned.                                           *)
(***************************************************************************)
C1_Terminates == <>Done

\* A run over files that import each other has returned.
C1_Witness == Done /\ HasTwoCycle /\ Cardinality(visited) >= 2

(***************************************************************************)
(* C2.  No file has its tree fetched and scanned more than once during a   *)
(* run, however often it is enqueued; when the run ends every reachable    *)
(* file has been fetched and scanned exactly once.                         *)
(***************************************************************************)
C2_FetchedOnce ==
    /\ \A f \in Files : Count(ast_calls, f) <= 1
    /\ Done => \A f \in Reachable : Count(ast_calls, f) = 1

\* A run has ended in which some file was enqueued more than once.
C2_Witness ==
    /\ Done
    /\ \E f \in Files : Count(pushed, f) >= 2 /\ Count(ast_calls, f) = 1
    /\ Cardinality(Reachable) >= 2

(***************************************************************************)
(* C3.  When the run returns, the registry holds exactly one entry per     *)
(* function or struct declaration of the visited files and nothing else:   *)
(* as many entries as declarations, distinct DefIds, each entry's name the *)
(* interned text of its declaration and its kind that of the declaration.  *)
(***************************************************************************)
C3_RegistryMatchesDecls ==
    Done =>
        LET decls == DeclsIn(visited)
            ids == DOMAIN def_map
        IN  /\ Cardinality(ids) = Cardinality(decls)
            /\ Len(returned) = Cardinality(decls)
            /\ \A i, j \in DOMAIN returned : i # j => returned[i] # returned[j]
            /\ ids = Range(returned)
            /\ \A id \in ids :
                   LET e == def_map[id]
                   IN  /\ e.def_id = id
                       /\ IsDecl(e.ast_node)
                       /\ e.kind = e.ast_node.tag
                       /\ e.name + 1 \in DOMAIN interner
                       /\ interner[e.name + 1] = e.ast_node.name
            \* as many entries as occurrences, declaration by declaration
            /\ \A item \in {def_map[id].ast_node : id \in ids}
                           \cup {ast[d[1]][d[2]] : d \in decls} :
                   Cardinality({id \in ids : def_map[id].ast_node = item})
                       = Cardinality({d \in decls : ast[d[1]][d[2]] = item})

\* The run of the test has returned: main imports utils and declares one
\* function, utils declares a struct and a function, three entries.
C3_Witness ==
    /\ Done
    /\ ast[entry_file] = <<Use(Simple(1)), Function("main")>>
    /\ visited = {0, 1}
    /\ Cardinality(DOMAIN def_map) = 3
    /\ {def_map[id].kind : id \in DOMAIN def_map} = ItemKind

(***************************************************************************)
(* C4.  As claimed: at every point every FileId is in exactly one of the   *)
(* states undiscovered (never enqueued), queued (in the worklist, not in   *)
(* the visited set), visited (in the visited set, not in the worklist).    *)
(***************************************************************************)
Undiscovered(f) == f \notin Range(pushed)
Queued(f) == f \in Range(worklist) /\ f \notin visited
VisitedAndGone(f) == f \in visited /\ f \notin Range(worklist)

ExactlyOne(a, b, c) == (a /\ ~b /\ ~c) \/ (~a /\ b /\ ~c) \/ (~a /\ ~b /\ c)

C4_Original ==
    \A f \in Files : ExactlyOne(Undiscovered(f), Queued(f), VisitedAndGone(f))

(***************************************************************************)
(* C4 as amended.  With visited meaning "in the visited set", whether or   *)
(* not copies of the file are still in the worklist, every FileId is in    *)
(* exactly one of undiscovered, queued, visited; at first only the entry   *)
(* file is queued; a file only moves undiscovered -> queued -> visited,    *)
(* one stage at a time, so each move happens at most once.                 *)
(***************************************************************************)
Stage(f) == IF f \in visited THEN 2 ELSE IF f \in Range(worklist) THEN 1 ELSE 0

C4_FileStages ==
    /\ \A f \in Files : IF f = entry_file THEN Queued(f) ELSE Undiscovered(f)
    /\ [](\A f \in Files : ExactlyOne(Undiscovered(f), Queued(f), f \in visited))
    /\ [][\A f \in Files : Stage(f)' \in {Stage(f), Stage(f) + 1}]_vars

\* A visited file is in the worklist again.
C4_Witness == \E f \in visited : f \in Range(worklist) /\ f # entry_file

(***************************************************************************)
(* C5.  As claimed: the loop ends after at most |reachable files|          *)
(* iterations, one iteration being one dequeue.                            *)
(***************************************************************************)
C5_Original == Done => Len(popped) <= Cardinality(Reachable)

(***************************************************************************)
(* C5 as amended.  The loop ends after exactly |reachable files|           *)
(* iterations that process a file (fetch its tree); the iterations that    *)
(* dequeue a visited file and skip it come on top, one for every enqueue   *)
(* of a file beyond its first, so there are as many iterations as          *)
(* enqueues.                                                               *)
(***************************************************************************)
C5_ProcessingSteps ==
    /\ Len(ast_calls) <= Cardinality(Reachable)
    /\ Len(popped) <= Len(pushed)
    /\ Done =>
        /\ Len(ast_calls) = Cardinality(Reachable)
        /\ Len(popped) = Len(pushed)
        /\ Len(popped) - Len(ast_calls) = Len(pushed) - Cardinality(Range(pushed))

\* A run has ended after more iterations than there are reachable files.
C5_Witness == Done /\ Len(popped) > Cardinality(Reachable)

(***************************************************************************)
(* C6.  When the run returns the worklist is empty and the visited set is  *)
(* exactly the set of files reachable from the entry file through Simple   *)
(* paths, top-level or nested in groups, that resolve.                     *)
(***************************************************************************)
C6_VisitedIsReachable == Done => worklist = <<>> /\ visited = Reachable

\* A run has ended that reached a file through a group and left a file out.
C6_Witness ==
    /\ Done
    /\ \E i \in DOMAIN ast[entry_file] :
           /\ ast[entry_file][i].tree.kind = "Group"
           /\ Len(ast[entry_file][i].tree.items) >= 2
           /\ FlatPaths(ast[entry_file][i].tree) # <<>>
    /\ Cardinality(visited) >= 2
    /\ visited # Files

(***************************************************************************)
(* C7.  A path that resolve_module answers with None enqueues nothing and  *)
(* raises no error: the run goes on to return, every file reachable        *)
(* through the other paths is visited and their declarations are in the    *)
(* registry.                                                               *)
(***************************************************************************)
Resolved(calls) == {i \in DOMAIN calls : resolve_module(calls[i][1], calls[i][2]) # <<>>}

HasUnresolved == Resolved(resolve_calls) # DOMAIN resolve_calls

C7_UnresolvedDropped ==
    /\ Len(pushed) = 1 + Cardinality(Resolved(resolve_calls))
    /\ HasUnresolved => Done \/ ENABLED Next
    /\ (Done /\ HasUnresolved) =>
        /\ visited = Reachable
        /\ \A d \in DeclsIn(Reachable) :
               \E id \in DOMAIN def_map : def_map[id].ast_node = ast[d[1]][d[2]]

\* A run has ended in which a path did not resolve and another file was
\* visited and its declarations registered.
C7_Witness ==
    /\ Done
    /\ HasUnresolved
    /\ Cardinality(visited) >= 2
    /\ Cardinality(DOMAIN def_map) >= 2

(***************************************************************************)
(* C8.  An import declaration whose tree is a group, nested to any depth,  *)
(* makes the resolve_module calls and the enqueues of its Simple paths     *)
(* written one after the other as separate declarations, in the same       *)
(* order and with the same anchor: the calls of a run are those of the     *)
(* flattened paths of the files, and the enqueues are their results.       *)
(***************************************************************************)
CallsOf(f, m) == [i \in 1 .. Len(ModulePaths(m)) |-> <<f, ModulePaths(m)[i]>>]

RECURSIVE CallsOfFiles(_)
CallsOfFiles(fs) ==
    IF fs = <<>> THEN <<>> ELSE CallsOf(Head(fs), ast[Head(fs)]) \o CallsOfFiles(Tail(fs))

RECURSIVE ResultsOf(_)
ResultsOf(calls) ==
    IF calls = <<>> THEN <<>>
    ELSE resolve_module(Head(calls)[1], Head(calls)[2]) \o ResultsOf(Tail(calls))

InFile == pc \in {"collect", "discover"}

C8_GroupIsFlattened ==
    LET finished == IF InFile THEN SubSeq(ast_calls, 1, Len(ast_calls) - 1) ELSE ast_calls
        current == IF pc = "discover"
                   THEN CallsOf(file_id, SubSeq(ast[file_id], 1, idx - 1))
                   ELSE <<>>
        pending == [i \in 1 .. Len(FlatPathsOfForest(stack)) |->
                        <<file_id, FlatPathsOfForest(stack)[i]>>]
    IN  /\ resolve_calls \o pending = CallsOfFiles(finished) \o current
        /\ pushed = <<entry_file>> \o ResultsOf(resolve_calls)

\* A declaration with a group inside a group has just been walked and
\* enqueued a file.
C8_Witness ==
    /\ pc = "discover"
    /\ stack = <<>>
    /\ idx > 1
    /\ LET t == ast[file_id][idx - 1].tree
       IN  /\ t.kind = "Group"
           /\ \E i \in DOMAIN t.items :
                  t.items[i].kind = "Group" /\ FlatPaths(t.items[i]) # <<>>
    /\ Len(pushed) >= 2

(***************************************************************************)
(* C9.  Walking a Wildcard, at the top of a declaration or inside a group, *)
(* calls resolve_module not at all, enqueues nothing and raises no error:  *)
(* worklist, visited set, allocator and registry are as before, and the    *)
(* sub-specifications that were pending are still pending.                 *)
(***************************************************************************)
WildcardNext == pc = "discover" /\ stack # <<>> /\ Head(stack).kind = "Wildcard"

C9_WildcardIsNoOp ==
    [][WildcardNext =>
          /\ stack' = Tail(stack)
          /\ pc' = "discover"
          /\ UNCHANGED <<worklist, visited, counter, def_map, interner,
                         resolve_calls, pushed, ast_calls, returned>>]_vars

\* The wildcard of `use {*, m1}` has been walked and its sibling is pending.
C9_Witness ==
    /\ pc = "discover"
    /\ idx > 1
    /\ ast[file_id][idx - 1].tree = Group(<<Wildcard, Simple(1)>>)
    /\ stack = <<Simple(1)>>

(***************************************************************************)
(* C10.  Successive calls of new_def_id on one allocator return 0, 1, 2,   *)
(* ...: the first call on a new allocator returns 0, every call returns a  *)
(* value greater than all values returned before, and no value is returned *)
(* twice, for any number of calls.                                         *)
(***************************************************************************)
C10_StrictlyIncreasing ==
    /\ pc = "allocator_new" => \A i \in DOMAIN returned : returned[i] = U32(i - 1)
    /\ \A i, j \in DOMAIN returned : i < j => U32Less(returned[i], returned[j])

(***************************************************************************)
(* C11.  With an interner that is injective on the text, two entries of    *)
(* the registry have the same name Symbol exactly if their declarations    *)
(* have the same name text, whatever their files and kinds; both entries   *)
(* are kept, under distinct DefIds.                                        *)
(***************************************************************************)
C11_SymbolIffText ==
    /\ \A a, b \in DOMAIN def_map :
           (def_map[a].name = def_map[b].name)
               <=> (def_map[a].ast_node.name = def_map[b].ast_node.name)
    /\ Cardinality(DOMAIN def_map) = Len(returned)

\* The run has returned with two entries of one name from different files
\* and of different kinds, and an entry of another name.
C11_Witness ==
    /\ Done
    /\ Cardinality(visited) >= 2
    /\ \E a, b, c \in DOMAIN def_map :
           /\ a # b
           /\ def_map[a].name = def_map[b].name
           /\ def_map[a].kind # def_map[b].kind
           /\ def_map[a].ast_node \notin Range(ast[1])
           /\ def_map[b].ast_node \in Range(ast[1])
           /\ def_map[c].name # def_map[a].name

(***************************************************************************)
(* C12.  At every point of a run the keys of the registry are exactly the  *)
(* DefIds 0 .. counter-1 issued so far by the run's allocator, and every   *)
(* entry's def_id is the key it is stored under; no step overwrites or     *)
(* removes an entry that is there.                                         *)
(***************************************************************************)
IssuedBy(c) == {U32(i) : i \in 0 .. (c[1] * Half + c[2]) - 1}

C12_KeysAreIssuedRange ==
    /\ [](/\ DOMAIN def_map = IssuedBy(counter)
          /\ \A k \in DOMAIN def_map : def_map[k].def_id = k)
    /\ [][\A k \in DOMAIN def_map : k \in DOMAIN def_map' /\ def_map'[k] = def_map[k]]_vars

\* In the middle of a run, between two files, with several entries made.
C12_Witness ==
    /\ pc = "collect"
    /\ Len(ast_calls) >= 2
    /\ idx > 1
    /\ Cardinality(DOMAIN def_map) >= 3
    /\ def_map[U32(2)].def_id = U32(2)

(***************************************************************************)
(* C13.  Every call of resolve_module is made with the file being          *)
(* processed as the anchor, also for paths nested in groups, and never     *)
(* with a file its imports discovered; every Simple path of a file's       *)
(* import declarations is resolved exactly once while the file is          *)
(* processed, and never outside of it.                                     *)
(***************************************************************************)
Processing(f) == InFile /\ ast_calls # <<>> /\ f = ast_calls[Len(ast_calls)]

C13_AnchorIsProcessedFile ==
    /\ [](\A f \in Files, p \in Paths :
              LET n == Count(resolve_calls, <<f, p>>)
                  m == Count(ModulePaths(ast[f]), p)
              IN  /\ n <= m
                  /\ f \notin Range(ast_calls) => n = 0
                  /\ (f \in Range(ast_calls) /\ ~Processing(f)) => n = m)
    /\ [][resolve_calls' # resolve_calls =>
              /\ pc = "discover"
              /\ ast_calls' = ast_calls
              /\ \E p \in Paths :
                     resolve_calls' =
                         Append(resolve_calls, <<ast_calls[Len(ast_calls)], p>>)]_vars

\* A declaration with a group has been walked in a file that is not the
\* file discovered last: the calls of the run, the group's among them, have
\* the processed file as anchor.
C13_Witness ==
    /\ pc = "discover"
    /\ stack = <<>>
    /\ idx > 1
    /\ ast[file_id][idx - 1].tree.kind = "Group"
    /\ FlatPaths(ast[file_id][idx - 1].tree) # <<>>
    /\ Len(resolve_calls) >= 2
    /\ pushed[Len(pushed)] # file_id
    /\ \A i \in DOMAIN resolve_calls : resolve_calls[i][1] = file_id

(***************************************************************************)
(* C14.  A step that dequeues a file which is already visited only takes   *)
(* the file off the worklist: no tree is fetched, no DefId allocated, the  *)
(* registry, the calls of resolve_module, the enqueues and the visited set *)
(* stay as they are.  A step of dependency discovery changes neither the   *)
(* registry nor the allocator, and a step of definition extraction changes *)
(* neither the worklist nor the visited set.                               *)
(***************************************************************************)
DequeuesVisited == pc = "loop" /\ worklist # <<>> /\ Head(worklist) \in visited

C14_FrameEffects ==
    [][/\ DequeuesVisited =>
              /\ worklist' = Tail(worklist)
              /\ UNCHANGED <<ast_calls, counter, returned, def_map, interner,
                             resolve_calls, pushed, visited>>
       /\ pc = "discover" => UNCHANGED <<def_map, counter, returned, interner>>
       /\ pc = "collect" => UNCHANGED <<worklist, visited, pushed, resolve_calls>>]_vars

\* A visited file has just been dequeued and skipped, after definitions
\* were extracted and dependencies discovered.
C14_Witness ==
    /\ pc = "loop"
    /\ popped # <<>>
    /\ Len(popped) > Len(ast_calls)
    /\ Count(popped, popped[Len(popped)]) >= 2
    /\ def_map # <<>>
    /\ Len(pushed) >= 3

(***************************************************************************)
(* C15.  Files are processed breadth first from the entry file: the entry  *)
(* file is processed first, a file is marked visited and scanned before    *)
(* every file whose shortest import distance from the entry file is        *)
(* larger, and the files are processed in the order in which they were     *)
(* enqueued for the first time.                                            *)
(***************************************************************************)
RECURSIVE DistFrom(_, _, _)
\* The number of imports on a shortest chain from a file of S to file f,
\* plus k (f reachable from S).
DistFrom(S, f, k) ==
    IF f \in S THEN k ELSE DistFrom(S \cup UNION {Imports(g) : g \in S}, f, k + 1)

Dist(f) == DistFrom({entry_file}, f, 0)

FirstIndex(s, x) == CHOOSE i \in DOMAIN s : s[i] = x /\ \A j \in 1 .. (i - 1) : s[j] # x

C15_BreadthFirst ==
    /\ ast_calls # <<>> => ast_calls[1] = entry_file
    /\ Range(ast_calls) = visited
    /\ \A j \in DOMAIN ast_calls :
           /\ \A x \in Reachable :
                  Dist(x) < Dist(ast_calls[j]) =>
                      \E i \in 1 .. (j - 1) : ast_calls[i] = x
           /\ \A i \in 1 .. (j - 1) :
                  FirstIndex(pushed, ast_calls[i]) < FirstIndex(pushed, ast_calls[j])

\* Three files were processed, at distances 0, 1 and 2 from the entry file,
\* and a file was enqueued more than once.
C15_Witness ==
    /\ Done
    /\ Len(ast_calls) = 3
    /\ Dist(ast_calls[2]) = 1
    /\ Dist(ast_calls[3]) = 2
    /\ Len(popped) > 3

(***************************************************************************)
(* C16.  DefIds are given to the declarations of a file in source order    *)
(* and without gaps, the files one after the other in the order they are   *)
(* processed, so a declaration of a file processed earlier has a smaller   *)
(* DefId than one of a file processed later; and no import of a file is    *)
(* resolved before all its declarations are registered.                    *)
(***************************************************************************)
RECURSIVE DeclSeq(_, _)
\* The declarations among the first n items of module m, in source order.
DeclSeq(m, n) ==
    IF n = 0 THEN <<>>
    ELSE DeclSeq(m, n - 1) \o (IF IsDecl(m[n]) THEN <<m[n]>> ELSE <<>>)

RECURSIVE DeclsOfFiles(_)
DeclsOfFiles(fs) ==
    IF fs = <<>> THEN <<>>
    ELSE DeclSeq(ast[Head(fs)], Len(ast[Head(fs)])) \o DeclsOfFiles(Tail(fs))

C16_SourceOrder ==
    LET finished == IF pc = "collect" THEN SubSeq(ast_calls, 1, Len(ast_calls) - 1)
                    ELSE ast_calls
        current == IF pc = "collect" THEN DeclSeq(ast[file_id], idx - 1) ELSE <<>>
        expected == DeclsOfFiles(finished) \o current
    IN  /\ Len(returned) = Len(expected)
        /\ \A i \in DOMAIN expected :
               /\ returned[i] = U32(i - 1)
               /\ def_map[U32(i - 1)].ast_node = expected[i]
        /\ pc = "collect" =>
               \A i \in DOMAIN resolve_calls : resolve_calls[i][1] # file_id

\* The run of the fixture: main of the entry file, then Point and helper of
\* the file it imports.
C16_Witness ==
    /\ Done
    /\ Len(returned) = 3
    /\ resolve_calls # <<>>
    /\ ast_calls[1] = 0
    /\ ast_calls[2] = 1
    /\ def_map[U32(0)].ast_node = Function("main")
    /\ def_map[U32(1)].ast_node = Struct("Point")
    /\ def_map[U32(2)].ast_node = Function("helper")

(***************************************************************************)
(* C19.  Over a whole run the number of enqueues, and so of dequeues, is   *)
(* one plus the number of Simple paths in the import declarations of the   *)
(* visited files that resolve_module answers with a file; the worklist can *)
(* hold a file several times and can hold visited files, and is never      *)
(* longer than that number.                                                *)
(***************************************************************************)
\* The number of Simple paths of file f that resolve.
ResolvableIn(f) ==
    Cardinality({i \in DOMAIN ModulePaths(ast[f]) :
                     resolve_module(f, ModulePaths(ast[f])[i]) # <<>>})

RECURSIVE SumResolvable(_)
SumResolvable(F) ==
    IF F = {} THEN 0
    ELSE LET f == CHOOSE g \in F : TRUE
         IN  ResolvableIn(f) + SumResolvable(F \ {f})

C19_EnqueueTotal ==
    /\ Done => /\ Len(pushed) = 1 + SumResolvable(visited)
               /\ Len(popped) = Len(pushed)
    /\ Len(pushed) <= 1 + SumResolvable(Reachable)
    /\ Len(worklist) <= 1 + SumResolvable(Reachable)
    /\ Len(worklist) = Len(pushed) - Len(popped)

\* A run has returned in which a file imports itself, so that it was
\* enqueued while it was visited, a file was enqueued more than once and a
\* path did not resolve.
C19_Witness ==
    /\ Done
    /\ HasUnresolved
    /\ Len(pushed) > Cardinality(Range(pushed))
    /\ \E f \in visited : f \in Imports(f)

(***************************************************************************)
(* C20.  After any sequence of set_expr_type calls get_expr_type(id)       *)
(* answers the type of the most recent set_expr_type for id, and None if   *)
(* there was none; set_expr_type(id, t) leaves the answer for every other  *)
(* id as it was, and get_expr_type changes nothing.                        *)
(***************************************************************************)
\* The type of the last call for expr_id in the history, as an Option.
LastSet(calls, expr_id) ==
    LET S == {i \in DOMAIN calls : calls[i][1] = expr_id}
    IN  IF S = {} THEN <<>>
        ELSE <<calls[CHOOSE i \in S : \A j \in S : j <= i][2]>>

C20_LastSetWins ==
    /\ [](/\ \A expr_id \in HirIds :
                 get_expr_type(expr_types, expr_id) = LastSet(set_calls, expr_id)
          /\ got # <<>> => got[2] \in {<<>>} \cup {<<ty>> : ty \in Types})
    /\ [][/\ set_calls' # set_calls =>
                 \A other \in HirIds \ {set_calls'[Len(set_calls')][1]} :
                     get_expr_type(expr_types', other) = get_expr_type(expr_types, other)
          /\ got' # got =>
                 /\ UNCHANGED <<expr_types, set_calls>>
                 /\ got'[2] = LastSet(set_calls, got'[1])]_vars

\* An id was set twice, to different types, another id once and a third
\* never; the last lookup was for the id set twice.
C20_Witness ==
    /\ Len(set_calls) = 3
    /\ set_calls[1][1] = set_calls[3][1]
    /\ set_calls[1][2] # set_calls[3][2]
    /\ set_calls[2][1] # set_calls[1][1]
    /\ got = <<set_calls[3][1], <<set_calls[3][2]>>>>
    /\ \E expr_id \in HirIds : get_expr_type(expr_types, expr_id) = <<>>

(***************************************************************************)
(* C17.  The visited set and the multiset of (name Symbol, kind) records   *)
(* of the returned registry are the same when the import declarations of   *)
(* the files are permuted, the members of groups permuted, or an import    *)
(* repeated.  As stated, with the Symbols themselves, this fails for an    *)
(* interner that numbers the texts in the order it first sees them         *)
(* (C17_Original); it holds for the records taken with the name text the   *)
(* Symbol stands for (C17_OrderIndependent).                               *)
(***************************************************************************)
\* The multiset of <<name Symbol, kind>> of a registry: record |-> count.
SymbolRecords(map) ==
    LET rec(k) == <<map[k].name, map[k].kind>>
    IN  [r \in {rec(k) : k \in DOMAIN map} |->
            Cardinality({k \in DOMAIN map : rec(k) = r})]

\* The multiset of <<name text, kind>> of a registry.
TextRecords(map) ==
    LET rec(k) == <<map[k].ast_node.name, map[k].kind>>
    IN  [r \in {rec(k) : k \in DOMAIN map} |->
            Cardinality({k \in DOMAIN map : rec(k) = r})]

SecondDone == Done /\ earlier # <<>>

C17_Original ==
    SecondDone =>
        /\ visited = earlier[1].visited
        /\ SymbolRecords(def_map) = SymbolRecords(earlier[1].def_map)

C17_OrderIndependent ==
    SecondDone =>
        /\ visited = earlier[1].visited
        /\ TextRecords(def_map) = TextRecords(earlier[1].def_map)
        /\ \A k \in DOMAIN def_map :
               interner[def_map[k].name + 1] = def_map[k].ast_node.name

\* The second run has returned over a database that differs from the first
\* one, with several files visited and a DefId that names another
\* declaration than in the first run.
C17_Witness ==
    /\ SecondDone
    /\ Cardinality(visited) >= 3
    /\ \E k \in DOMAIN def_map :
           def_map[k].ast_node # earlier[1].def_map[k].ast_node

(***************************************************************************)
(* C18.  A second run over the same database and entry file returns the    *)
(* registry the first run returned, with DefIds from 0 again: it starts    *)
(* with a new allocator, an empty visited set and a worklist holding the   *)
(* entry file only.                                                        *)
(***************************************************************************)
C18_RunsAreIndependent ==
    /\ SecondDone =>
           /\ def_map = earlier[1].def_map
           /\ visited = earlier[1].visited
           /\ DOMAIN def_map = IssuedBy(counter)
    /\ (earlier # <<>> /\ popped = <<>>) =>
           /\ counter = U32(0)
           /\ def_map = <<>>
           /\ visited = {}
           /\ worklist = <<entry_file>>

\* The second run has returned, with several files visited and several
\* declarations registered.
C18_Witness ==
    /\ SecondDone
    /\ Cardinality(visited) >= 2
    /\ Cardinality(DOMAIN def_map) >= 3
    /\ U32(0) \in DOMAIN def_map

====
